---- MODULE Spec2Model ----
(***************************************************************************)
(* Model of the GameStore ingestion pipeline:                              *)
(*   scraper/gamestar_scraper.py  scrape_category, fetch_product_detail,   *)
(*                                 parse_price,                            *)
(*                                 get_existing_names_from_api,            *)
(*                                 post_products_to_api, make_session      *)
(*   routers/products.py          list_products, get_product,              *)
(*                                 create_product, update_product,          *)
(*                                 delete_product                           *)
(*   routers/api_key.py           get_api_key                              *)
(*   import_from_csv.py           parse_row, insert_direct, post_to_api    *)
(*                                                                         *)
(* Spec         scrape_category                                            *)
(* PublishSpec  post_products_to_api against the catalog service           *)
(* ServiceSpec  the catalog service taking requests from any client        *)
(* FieldSpec    the extraction functions applied to one input              *)
(* DetailSpec   fetch_product_detail, GET by GET                           *)
(* ImportSpec   import_from_csv over one file, in either mode              *)
(*                                                                         *)
(* Texts are sequences of one-character strings.  Durations are in         *)
(* hundredths of a second.                                                 *)
(***************************************************************************)
EXTENDS Integers, Sequences, FiniteSets, TLC

\* ------------------------------------------------------------------ bounds
MaxPages  == 2      \* largest max_pages argument explored
MaxItems  == 1      \* most li.product entries on one listing page
MaxFaults == 4      \* most failing listing-page or create exchanges in one run
MaxCands  == 3      \* longest candidate list given to post_products_to_api
MaxRows   == 4      \* most rows the products table holds
MaxCsvRows == 2     \* most rows of an imported CSV file
MaxPriceLen == 3    \* longest generated price text
MaxStockNodes == 2  \* most text nodes inside a stock tag

\* ------------------------------------------------------- program constants
max_attempts     == 3     \* scrape_category: manual retry loop
ScrapeRetries    == 4     \* scrape_category: make_session(retries=4, ...)
ScrapeBackoff    == 60    \* scrape_category: make_session(backoff_factor=0.6)
PublishRetries   == 3     \* post_products_to_api: make_session(retries=3, ...)
LoopBackoffBase  == 100   \* wait = 1.0 * (2 ** (attempts - 1))
status_forcelist == {429, 500, 502, 503, 504}
TimedOut         == 0     \* no response: the read timed out
BrokenBody       == 1     \* the response body broke off while it was read
NoAnswer         == -1    \* nothing was sent yet

\* ------------------------------------------------------------------- texts
RECURSIVE Pow2(_)
Pow2(n) == IF n <= 0 THEN 1 ELSE 2 * Pow2(n - 1)

Max0(n) == IF n >= 0 THEN n ELSE 0

None == <<"None">>        \* Python's None where a text is expected

IsSpace(c) == c \in {" ", "\n", "\t"}
IsDigit(c) == c \in {"0", "1", "2", "3", "4", "5", "6", "7", "8", "9"}

LowerChar(c) ==
  CASE c = "S" -> "s" [] c = "K" -> "k" [] c = "A" -> "a" [] c = "N" -> "n"
    [] c = "E" -> "e" [] c = "T" -> "t" [] c = "O" -> "o" [] c = "G" -> "g"
    [] c = "F" -> "f" [] c = "I" -> "i" [] c = "Ë" -> "ë" [] c = "U" -> "u"
    [] OTHER -> c

Lower(t) == [k \in 1..Len(t) |-> LowerChar(t[k])]

\* str.strip()
RECURSIVE LStrip(_)
LStrip(t) == IF t # <<>> /\ IsSpace(Head(t)) THEN LStrip(Tail(t)) ELSE t

RECURSIVE RStrip(_)
RStrip(t) ==
  IF t # <<>> /\ IsSpace(t[Len(t)]) THEN RStrip(SubSeq(t, 1, Len(t) - 1)) ELSE t

Strip(t) == RStrip(LStrip(t))

\* Tag.get_text(strip=True): every text node stripped, empty ones dropped,
\* the rest joined with no separator
RECURSIVE GetTextStrip(_)
GetTextStrip(nodes) ==
  IF nodes = <<>> THEN <<>> ELSE Strip(Head(nodes)) \o GetTextStrip(Tail(nodes))

\* first position >= k of t that holds no whitespace (Len(t) + 1 if none)
RECURSIVE SkipSpace(_, _)
SkipSpace(t, k) ==
  IF k <= Len(t) /\ IsSpace(t[k]) THEN SkipSpace(t, k + 1) ELSE k

\* "$" without MULTILINE: the end, or just before one final newline
AtEnd(t, k) == k = Len(t) + 1 \/ (k = Len(t) /\ t[k] = "\n")

RECURSIVE SkipDigits(_, _)
SkipDigits(t, k) ==
  IF k <= Len(t) /\ IsDigit(t[k]) THEN SkipDigits(t, k + 1) ELSE k

\* ^\s*-\d+%$
MatchDiscount(t) ==
  LET a == SkipSpace(t, 1)
      b == SkipDigits(t, a + 1)
  IN  /\ a <= Len(t) /\ t[a] = "-"
      /\ b > a + 1
      /\ b <= Len(t) /\ t[b] = "%"
      /\ AtEnd(t, b + 1)

\* ^ska\s+n[eë]\s+stok\s*$   (IGNORECASE)
MatchNoStock(t) ==
  LET l == Lower(t)
      a == SkipSpace(l, 4)
      b == SkipSpace(l, a + 2)
  IN  /\ Len(l) >= 3 /\ SubSeq(l, 1, 3) = <<"s", "k", "a">>
      /\ a > 4
      /\ a + 1 <= Len(l) /\ l[a] = "n" /\ l[a + 1] \in {"e", "ë"}
      /\ b > a + 2
      /\ b + 3 <= Len(l) /\ SubSeq(l, b, b + 3) = <<"s", "t", "o", "k">>
      /\ SkipSpace(l, b + 4) = Len(l) + 1

\* _BAD_TITLE_RE.match(title)
BAD_TITLE_RE(t) == MatchDiscount(t) \/ MatchNoStock(t)

\* "not title"
Falsy(t) == t = None \/ t = <<>>


\* ---------------------------------------------------------- listing pages
T_GTA      == <<" ", "G", "T", "A", " ">>
T_Discount == <<"-", "1", "5", "%">>
T_NoStock  == <<"S", "k", "a", " ", "n", "ë", " ", "s", "t", "o", "k">>
T_Blank    == <<" ">>
T_FIFA     == <<"F", "I", "F", "A">>
T_Href     == <<"/", "p">>
BASE       == <<"https://gamestar-ks.com">>

\* what the title selector chain of one li.product finds: no tag, or a tag
\* with its text nodes
NoTag == [present |-> FALSE, nodes |-> <<>>]
Tag(nodes) == [present |-> TRUE, nodes |-> nodes]

Entry(tag, href) == [title_tag |-> tag, href |-> href]

\* one li.product entry: its title tag and the href of its first a[href]
Entries ==
  { Entry(Tag(<<T_GTA>>), T_Href),
    Entry(Tag(<<T_Discount>>), T_Href),
    Entry(NoTag, None) }

RECURSIVE SeqsUpTo(_, _)
SeqsUpTo(S, n) ==
  IF n = 0 THEN {<<>>}
  ELSE LET shorter == SeqsUpTo(S, n - 1)
       IN  shorter \cup {Append(q, x) : q \in shorter, x \in S}

\* soup.select("ul.products li.product") of a listing page
Bodies == SeqsUpTo(Entries, MaxItems)

ServerStatuses == {200, 404, 503, TimedOut, BrokenBody}

\* the final exchange of the detail-page GET: its status and the page's h1
DetailResponses ==
  {[status |-> 503, h1 |-> NoTag]}
  \cup {[status |-> 200, h1 |-> Tag(<<n>>)] : n \in {T_Blank, T_FIFA, T_NoStock}}

\* the Python variable r of scrape_category
Unbound == [kind |-> "unbound", status |-> 0, url |-> 0, items |-> <<>>]
NoneR == [kind |-> "none", status |-> 0, url |-> 0, items |-> <<>>]
Response(st, p, b) == [kind |-> "response", status |-> st, url |-> p, items |-> b]

VARIABLES
  pc,           \* position in scrape_category
  max_pages,    \* argument max_pages
  page,         \* loop variable of "for page in range(1, max_pages + 1)"
  attempts,     \* manual retry loop counter
  r,            \* last value assigned to r
  idx,          \* position of "for item in items"
  products,     \* the result list
  retry_total,  \* what is left of Retry.total for the GET in flight
  errs,         \* length of the adapter's retry history for that GET
  faults,       \* failing HTTP exchanges so far
  gets,         \* GET requests sent for the current listing URL
  n503,         \* how many of them were answered 503
  last,         \* the status the latest of them was answered with
  waits,        \* the sleeps between them, in order
  polite,       \* the polite delay was slept since the last listing GET
  served,       \* per page: "pending", "ok" (fetched) or "skipped"
  body,         \* the entries the server sent for the current page
  dts,          \* the detail titles obtained for them, None without a fetch
  expected,     \* the valid records of the pages fetched so far, in order
  warm          \* the answer to the warm-up GET, until a listing GET is sent

VARIABLES
  ppc,            \* position in post_products_to_api
  candidates,     \* argument products: the names of the candidate records
  api_key,        \* argument api_key
  API_KEYS,       \* the comma-separated entries of the service's API_KEYS
  table,          \* the service's products table, in id order
  next_id,        \* the table's AUTOINCREMENT counter
  existing,       \* the in-memory known-set
  posted,         \* counter posted
  skipped,        \* counter skipped
  i,              \* position of "for p in products"
  post_total,     \* what is left of Retry.total for the POST in flight
  pfaults,        \* failing create exchanges so far
  known_fetches,  \* calls of get_existing_names_from_api so far
  fetch_outcome,  \* how the known-name fetch ended
  snapshot,       \* the known-set as fetched
  calls,          \* calls of s.post so far
  wire,           \* POST requests put on the wire for the current call
  outcome,        \* per candidate reached: "skipped", "posted" or "failed"
  answers,        \* per call of s.post: the status it ended with
  reached         \* POST requests of the current call that got to the service

VARIABLES
  spc,            \* the catalog service: "serving" while it takes requests
  req,            \* the request it handled last
  resp            \* the status it answered that request with

VARIABLES
  fpc,            \* field extraction: "input" before, "output" after the call
  fin,            \* what the extraction function is given
  fout            \* what it returned

VARIABLES
  dpc,            \* fetch_product_detail: "get" while fetching, then "return"
  dtotal,         \* what is left of Retry.total for its GET
  derrs,          \* length of the adapter's retry history for that GET
  dhist,          \* the statuses its GETs were answered with, in order
  dwaits,         \* the sleeps between them, in order
  dresult         \* the title it returned

VARIABLES
  importer        \* import_from_csv: pc ("read", "done", "raised"), mode,
                  \* file (the rows of the CSV), pos (the row the reader is
                  \* at), rows (insert_direct's list), sent (the names POSTed,
                  \* in order), count
pvars == <<ppc, candidates, api_key, API_KEYS, table, next_id, existing, posted,
           skipped, i, post_total, pfaults, known_fetches, fetch_outcome, snapshot,
           calls, wire, outcome, answers, reached>>

svars == <<pc, max_pages, page, attempts, r, idx, products, retry_total, errs,
           faults, gets, n503, last, waits, polite, served, body, dts, expected,
           warm>>

\* the variables of the specifications that run neither scrape_category
\* nor post_products_to_api
xvars == <<spc, req, resp, fpc, fin, fout, dpc, dtotal, derrs, dhist, dwaits,
           dresult>>

ivars == <<importer>>

vars == <<svars, pvars, xvars, ivars>>

\* ------------------------------------------------------- field extraction
\* title = title_tag.get_text(strip=True) if title_tag else None
ExtractTitle(e) ==
  IF e.title_tag.present THEN GetTextStrip(e.title_tag.nodes) ELSE None

\* link = urljoin(BASE, a["href"]) if a and a.has_attr("href") else None
ExtractLink(e) == IF e.href = None THEN None ELSE BASE \o e.href

\* not title or _BAD_TITLE_RE.match(title)
BadTitle(title) == Falsy(title) \/ BAD_TITLE_RE(title)

\* fetch_product_detail: the h1 text, None on any exception or without h1
fetch_product_detail(d) ==
  IF d.status = 200 /\ d.h1.present THEN GetTextStrip(d.h1.nodes) ELSE None

\* the fallback applies: the listing title is unusable and there is a link
NeedsDetail(e) == BadTitle(ExtractTitle(e)) /\ ExtractLink(e) # None

\* a fallback that keeps the listing title whatever the detail page says
FallbackTitle_Listing(e, dt) == ExtractTitle(e)

\* title after "if dt: title = dt"
FallbackTitle(e, dt) == IF ~Falsy(dt) THEN dt ELSE ExtractTitle(e)

\* Emit without the second title check
Emit_Unchecked(prods, title, link) ==
  Append(prods, [name |-> title, price |-> None, brand |-> None,
                 status |-> None, product_url |-> link])

\* second title check, then products.append({...})
Emit(prods, title, link) ==
  IF BadTitle(title) THEN prods
  ELSE Append(prods, [name |-> title, price |-> None, brand |-> None,
                      status |-> None, product_url |-> link])

\* -------------------------------------------------------- session adapter
\* urllib3 Retry.get_backoff_time: nothing after the first error, then
\* backoff_factor * 2^(n-1)
AdapterBackoff(factor, n) == IF n <= 1 THEN 0 ELSE factor * Pow2(n - 1)

\* Retry.increment allows one more send: status in status_forcelist or a
\* read error, with the method in allowed_methods and total not exhausted
AdapterRetries(st, total) ==
  /\ st \in status_forcelist \cup {TimedOut}
  /\ total > 0

\* ------------------------------------------------------- scrape_category
\* the title an entry ends up with, given what its detail fetch returned
FinalTitle(e, dt) == IF NeedsDetail(e) THEN FallbackTitle(e, dt) ELSE ExtractTitle(e)

\* the records a fetched page contributes: one per entry whose final title
\* is usable, in the order of the page
RECURSIVE ValidRecords(_, _)
ValidRecords(items, dtitles) ==
  IF items = <<>> \/ dtitles = <<>> THEN <<>>
  ELSE Emit(<<>>, FinalTitle(Head(items), Head(dtitles)), ExtractLink(Head(items)))
       \o ValidRecords(Tail(items), Tail(dtitles))

NoRequest == [op |-> "none", key |-> <<>>, name |-> <<>>, id |-> 0]

\* no client talks to the catalog service directly
ServiceIdle ==
  /\ spc = "idle"
  /\ req = NoRequest
  /\ resp = NoAnswer

NoOutput == [op |-> "none"]

\* no extraction function is being applied on its own
FieldIdle ==
  /\ fpc = "idle"
  /\ fin = [kind |-> "none"]
  /\ fout = NoOutput

\* fetch_product_detail is not running on its own
DetailIdle ==
  /\ dpc = "idle"
  /\ dtotal = 0
  /\ derrs = 0
  /\ dhist = <<>>
  /\ dwaits = <<>>
  /\ dresult = None

\* import_from_csv is not running
ImportIdle ==
  importer = [pc |-> "idle", mode |-> "none", file |-> <<>>, pos |-> 0,
              rows |-> <<>>, sent |-> <<>>, count |-> 0]

ExtrasIdle == ServiceIdle /\ FieldIdle /\ DetailIdle /\ ImportIdle

\* post_products_to_api is not running
PublishIdle ==
  /\ ppc = "idle"
  /\ candidates = <<>>
  /\ api_key = <<>>
  /\ API_KEYS = <<>>
  /\ table = <<>>
  /\ next_id = 1
  /\ existing = {}
  /\ posted = 0
  /\ skipped = 0
  /\ i = 0
  /\ post_total = 0
  /\ pfaults = 0
  /\ known_fetches = 0
  /\ fetch_outcome = "none"
  /\ snapshot = {}
  /\ calls = 0
  /\ wire = 0
  /\ outcome = <<>>
  /\ answers = <<>>
  /\ reached = 0

ScrapeInit ==
  /\ PublishIdle
  /\ ExtrasIdle
  /\ pc = "warmup"
  /\ max_pages \in 0..MaxPages
  /\ page = 1
  /\ attempts = 0
  /\ r = Unbound
  /\ idx = 0
  /\ products = <<>>
  /\ retry_total = 0
  /\ errs = 0
  /\ faults = 0
  /\ gets = 0
  /\ n503 = 0
  /\ last = NoAnswer
  /\ waits = <<>>
  /\ polite = FALSE
  /\ served = [p \in 1..MaxPages |-> "pending"]
  /\ body = <<>>
  /\ dts = <<>>
  /\ expected = <<>>
  /\ warm = NoAnswer

\* a warm-up whose failure ends the run
WarmUp_Fatal ==
  /\ pc = "warmup"
  /\ \E st \in ServerStatuses :
       /\ warm' = st
       /\ pc' = IF st = 200 THEN "for" ELSE "raised"
  /\ UNCHANGED <<max_pages, page, attempts, r, idx, products, retry_total,
                 errs, faults, gets, n503, last, waits, polite, served, body, dts,
                 expected>>
  /\ UNCHANGED <<pvars, xvars, ivars>>

\* s.get(BASE, timeout=(5, 10)) inside try/except: the outcome is dropped
WarmUp ==
  /\ pc = "warmup"
  /\ \E st \in ServerStatuses :
       /\ warm' = st
       /\ pc' = "for"
  /\ UNCHANGED <<max_pages, page, attempts, r, idx, products, retry_total,
                 errs, faults, gets, n503, last, waits, polite, served, body, dts,
                 expected>>
  /\ UNCHANGED <<pvars, xvars, ivars>>

\* for page in range(1, max_pages + 1): ... attempts = 0
ForPage ==
  /\ pc = "for"
  /\ IF page <= max_pages
       THEN /\ attempts' = 0
            /\ gets' = 0
            /\ n503' = 0
            /\ last' = NoAnswer
            /\ waits' = <<>>
            /\ body' = <<>>
            /\ dts' = <<>>
            /\ pc' = "while"
       ELSE /\ pc' = "done"
            /\ UNCHANGED <<attempts, gets, n503, last, waits, body, dts>>
  /\ UNCHANGED <<max_pages, page, r, idx, products, retry_total, errs,
                 faults, polite, served, expected, warm>>
  /\ UNCHANGED <<pvars, xvars, ivars>>

\* while attempts < max_attempts: attempts += 1; s.get(page_url, ...)
WhileAttempts ==
  /\ pc = "while"
  /\ IF attempts < max_attempts
       THEN /\ attempts' = attempts + 1
            /\ retry_total' = ScrapeRetries
            /\ errs' = 0
            /\ pc' = "get"
       ELSE /\ pc' = "if_r"
            /\ UNCHANGED <<attempts, retry_total, errs>>
  /\ UNCHANGED <<max_pages, page, r, idx, products, faults, gets, n503, last,
                 waits, polite, served, body, dts, expected, warm>>
  /\ UNCHANGED <<pvars, xvars, ivars>>

\* OnRequestException without "r = None" when the attempts are used up
OnRequestException_KeepR(failed) ==
  IF attempts < max_attempts
    THEN /\ waits' = Append(waits, LoopBackoffBase * Pow2(attempts - 1))
         /\ r' = failed
    ELSE /\ r' = failed
         /\ UNCHANGED waits

\* except RequestException: back off and continue, or give the page up
OnRequestException(failed) ==
  IF attempts < max_attempts
    THEN /\ waits' = Append(waits, LoopBackoffBase * Pow2(attempts - 1))
         /\ r' = failed
    ELSE /\ r' = NoneR
         /\ UNCHANGED waits

\* the exception a failed s.get / raise_for_status() ends in: the adapter
\* turns a read timeout with no retry left into ConnectionError, a body
\* that breaks off into ChunkedEncodingError; raise_for_status() raises
\* HTTPError
RaisedBy(st) ==
  CASE st = TimedOut -> "ConnectionError"
    [] st = BrokenBody -> "ChunkedEncodingError"
    [] OTHER -> "HTTPError"

\* the subclasses of requests.exceptions.RequestException
RequestExceptions ==
  {"HTTPError", "ConnectionError", "Timeout", "ChunkedEncodingError",
   "TooManyRedirects", "RetryError"}

\* an except clause that names HTTPError only
IsRequestException_HTTPOnly(cls) == cls = "HTTPError"

\* except requests.exceptions.RequestException as e
IsRequestException(cls) == cls \in RequestExceptions

\* one GET of the listing page on the wire, and what the session and the
\* retry loop make of its answer
Get ==
  /\ pc = "get"
  /\ \E st \in ServerStatuses, b \in Bodies :
       /\ st # 200 => (faults < MaxFaults /\ b = <<>>)
       /\ faults' = IF st = 200 THEN faults ELSE faults + 1
       /\ gets' = gets + 1
       /\ n503' = IF st = 503 THEN n503 + 1 ELSE n503
       /\ last' = st
       /\ polite' = FALSE
       /\ warm' = NoAnswer
       /\ IF st = 200
            THEN \* r.raise_for_status() passes; break
                 /\ r' = Response(200, page, b)
                 /\ served' = [served EXCEPT ![page] = "ok"]
                 /\ body' = b
                 /\ pc' = "if_r"
                 /\ UNCHANGED <<retry_total, errs, waits>>
            ELSE IF AdapterRetries(st, retry_total)
            THEN \* the adapter sleeps and sends the request again
                 /\ retry_total' = retry_total - 1
                 /\ errs' = errs + 1
                 /\ waits' = IF AdapterBackoff(ScrapeBackoff, errs + 1) > 0
                               THEN Append(waits, AdapterBackoff(ScrapeBackoff, errs + 1))
                               ELSE waits
                 /\ pc' = "get"
                 /\ UNCHANGED <<r, served, body>>
            ELSE IF IsRequestException(RaisedBy(st))
            THEN \* s.get raises, or returns a response that
                 \* raise_for_status() rejects
                 /\ OnRequestException(IF st \in {TimedOut, BrokenBody} THEN r
                                       ELSE Response(st, page, <<>>))
                 /\ pc' = "while"
                 /\ UNCHANGED <<retry_total, errs, served, body>>
            ELSE \* no except clause matches: scrape_category raises
                 /\ pc' = "raised"
                 /\ UNCHANGED <<r, waits, retry_total, errs, served, body>>
  /\ UNCHANGED <<max_pages, page, attempts, idx, products, dts, expected>>
  /\ UNCHANGED <<pvars, xvars, ivars>>

\* if r is None: continue
IfR ==
  /\ pc = "if_r"
  /\ IF r = NoneR
       THEN /\ page' = page + 1
            /\ served' = [served EXCEPT ![page] = "skipped"]
            /\ pc' = "for"
            /\ UNCHANGED idx
       ELSE /\ idx' = 1
            /\ pc' = "items"
            /\ UNCHANGED <<page, served>>
  /\ UNCHANGED <<max_pages, attempts, r, products, retry_total, errs, faults,
                 gets, n503, last, waits, polite, body, dts, expected, warm>>
  /\ UNCHANGED <<pvars, xvars, ivars>>

\* for item in items: up to the title fallback
Item ==
  /\ pc = "items"
  /\ IF idx > Len(r.items)
       THEN /\ pc' = "sleep"
            /\ UNCHANGED <<idx, products, dts>>
       ELSE LET e == r.items[idx]
            IN  IF NeedsDetail(e)
                  THEN /\ pc' = "detail"
                       /\ UNCHANGED <<idx, products, dts>>
                  ELSE /\ products' = Emit(products, ExtractTitle(e), ExtractLink(e))
                       /\ dts' = Append(dts, None)
                       /\ idx' = idx + 1
                       /\ pc' = "items"
  /\ UNCHANGED <<max_pages, page, attempts, r, retry_total, errs, faults,
                 gets, n503, last, waits, polite, served, body, expected, warm>>
  /\ UNCHANGED <<pvars, xvars, ivars>>

\* dt = fetch_product_detail(s, link, timeout) and the rest of the item
Detail ==
  /\ pc = "detail"
  /\ \E d \in DetailResponses :
       LET e  == r.items[idx]
           dt == fetch_product_detail(d)
       IN  /\ products' = Emit(products, FallbackTitle(e, dt), ExtractLink(e))
           /\ dts' = Append(dts, dt)
  /\ idx' = idx + 1
  /\ pc' = "items"
  /\ UNCHANGED <<max_pages, page, attempts, r, retry_total, errs, faults, gets,
                 n503, last, waits, polite, served, body, expected, warm>>
  /\ UNCHANGED <<pvars, xvars, ivars>>

\* time.sleep(0.45) at the end of the loop body
Sleep ==
  /\ pc = "sleep"
  /\ polite' = TRUE
  /\ page' = page + 1
  /\ expected' = expected \o ValidRecords(body, dts)
  /\ pc' = "for"
  /\ UNCHANGED <<max_pages, attempts, r, idx, products, retry_total, errs,
                 faults, gets, n503, last, waits, served, body, dts, warm>>
  /\ UNCHANGED <<pvars, xvars, ivars>>

ScrapeNext ==
  \/ WarmUp
  \/ ForPage
  \/ WhileAttempts
  \/ Get
  \/ IfR
  \/ Item
  \/ Detail
  \/ Sleep

Spec == ScrapeInit /\ [][ScrapeNext]_vars

\* ------------------------------------------------------- catalog service
K_Good == <<"k">>
K_Bad  == <<"x">>

N_GTA  == <<"G", "T", "A">>
N_gta  == <<"g", "t", "a">>
N_FIFA == <<"F", "I", "F", "A">>
CandNames == {N_GTA, N_gta, N_FIFA}

Row(id, name) == [id |-> id, name |-> name]

\* a get_api_key that keeps the empty entries of API_KEYS
get_api_key_KeepEmpty(key, env_entries) ==
  key \in {Strip(env_entries[k]) : k \in 1..Len(env_entries)}

\* get_api_key: allowed = [k.strip() for k in env_keys.split(",") if k.strip()]
get_api_key(key, env_entries) ==
  key \in {Strip(env_entries[k]) : k \in {j \in 1..Len(env_entries) :
                                              Strip(env_entries[j]) # <<>>}}

\* a request without the api-key header: Header(...) makes it required
NoHeader == <<"absent">>

\* the dependency passed, the handler runs
Passed == 0

\* Depends(get_api_key): 422 without the header, 401 when get_api_key raises
Depends(key, env_entries) ==
  IF key = NoHeader THEN 422
  ELSE IF ~get_api_key(key, env_entries) THEN 401
  ELSE Passed

\* SELECT ... FROM products WHERE id = ? finds a row
HasId(tbl, id) == \E k \in 1..Len(tbl) : tbl[k].id = id

\* UPDATE products SET name=?, ... WHERE id=?
update_product(tbl, id, name) ==
  [k \in 1..Len(tbl) |-> IF tbl[k].id = id THEN Row(id, name) ELSE tbl[k]]

\* a delete that takes the id for the position of the row
delete_product_ByPosition(tbl, id) ==
  IF id \in 1..Len(tbl)
    THEN [k \in 1..(Len(tbl) - 1) |-> IF k < id THEN tbl[k] ELSE tbl[k + 1]]
    ELSE tbl

\* DELETE FROM products WHERE id = ?
delete_product(tbl, id) ==
  LET Keep(row) == row.id # id IN SelectSeq(tbl, Keep)

\* create_product: INSERT INTO products ...; the id is the next AUTOINCREMENT
create_product(tbl, id, name) == Append(tbl, Row(id, name))

\* list_products without filters: every row (the caller ignores the order)
list_products(tbl) == {tbl[k] : k \in 1..Len(tbl)}

\* rows of the table that carry the name
RowsNamed(tbl, name) == {k \in 1..Len(tbl) : tbl[k].name = name}

\* ------------------------------------------------- post_products_to_api
FetchOutcomes == {"ok", "transport", "status", "unparsable"}

\* get_existing_names_from_api that answers from the table on a failure too
get_existing_names_from_api_Stale(how, tbl) ==
  {row.name : row \in {x \in list_products(tbl) : x.name # <<>>}}

\* get_existing_names_from_api: the non-empty names of the listed rows, the
\* empty set on any exception
get_existing_names_from_api(how, tbl) ==
  IF how = "ok" THEN {row.name : row \in {x \in list_products(tbl) : x.name # <<>>}}
  ELSE {}

\* a case-insensitive membership test
IsDuplicate_Fuzzy(name, known) == Lower(name) \in {Lower(k) : k \in known}

\* name in existing
IsDuplicate(name, known) == name \in known

\* a publish that forgets existing.add(name)
AddKnown_Forget(known, name) == known

\* existing.add(name)
AddKnown(known, name) == known \cup {name}

\* api_key = (api_key or "").strip()
StripKey(key) == Strip(key)

InitTables ==
  {<<>>, <<Row(1, N_GTA)>>, <<Row(1, N_FIFA), Row(2, N_GTA)>>}

\* scrape_category is not running
ScrapeIdle ==
  /\ pc = "idle"
  /\ max_pages = 0
  /\ page = 0
  /\ attempts = 0
  /\ r = Unbound
  /\ idx = 0
  /\ products = <<>>
  /\ retry_total = 0
  /\ errs = 0
  /\ faults = 0
  /\ gets = 0
  /\ n503 = 0
  /\ last = NoAnswer
  /\ waits = <<>>
  /\ polite = FALSE
  /\ served = [p \in 1..MaxPages |-> "pending"]
  /\ body = <<>>
  /\ dts = <<>>
  /\ expected = <<>>
  /\ warm = NoAnswer

PublishInit ==
  /\ ScrapeIdle
  /\ ExtrasIdle
  /\ ppc = "fetch_known"
  /\ candidates \in SeqsUpTo(CandNames, MaxCands)
  /\ api_key \in {K_Good, K_Bad}
  /\ API_KEYS = <<<<" ", "k">>, <<" ">>>>
  /\ table \in InitTables
  /\ next_id = Len(table) + 1
  /\ existing = {}
  /\ posted = 0
  /\ skipped = 0
  /\ i = 0
  /\ post_total = 0
  /\ pfaults = 0
  /\ known_fetches = 0
  /\ fetch_outcome = "none"
  /\ snapshot = {}
  /\ calls = 0
  /\ wire = 0
  /\ outcome = <<>>
  /\ answers = <<>>
  /\ reached = 0

\* existing = get_existing_names_from_api(base_url); posted = 0; skipped = 0
FetchKnown ==
  /\ ppc = "fetch_known"
  /\ \E how \in FetchOutcomes :
       /\ existing' = get_existing_names_from_api(how, table)
       /\ snapshot' = get_existing_names_from_api(how, table)
       /\ fetch_outcome' = how
  /\ known_fetches' = known_fetches + 1
  /\ posted' = 0
  /\ skipped' = 0
  /\ i' = 1
  /\ ppc' = "for"
  /\ UNCHANGED <<candidates, api_key, API_KEYS, table, next_id, post_total,
                 pfaults, calls, wire, outcome, answers, reached>>
  /\ UNCHANGED <<svars, xvars, ivars>>

\* for p in products: skip a known name, else call s.post
Candidate ==
  /\ ppc = "for"
  /\ IF i > Len(candidates)
       THEN /\ ppc' = "done"
            /\ UNCHANGED <<skipped, i, post_total, calls, wire, outcome, reached>>
       ELSE IF IsDuplicate(candidates[i], existing)
       THEN /\ skipped' = skipped + 1
            /\ outcome' = Append(outcome, "skipped")
            /\ i' = i + 1
            /\ ppc' = "for"
            /\ UNCHANGED <<post_total, calls, wire, reached>>
       ELSE /\ calls' = calls + 1
            /\ wire' = 0
            /\ reached' = 0
            /\ post_total' = PublishRetries
            /\ ppc' = "post"
            /\ UNCHANGED <<skipped, i, outcome>>
  /\ UNCHANGED <<candidates, api_key, API_KEYS, table, next_id, existing, posted,
                 pfaults, known_fetches, fetch_outcome, snapshot, answers>>
  /\ UNCHANGED <<svars, xvars, ivars>>

\* what the exchanges of one POST on the wire can be: the service runs
\* create_product and answers 200; it runs create_product and the answer is
\* lost; the request never reaches it; a 503 comes back instead
Exchanges == {"created", "answer_lost", "unreached", "unavailable"}

\* the status the session sees for an exchange
SeenStatus(x) ==
  CASE x = "created" -> 200
    [] x = "unavailable" -> 503
    [] OTHER -> TimedOut

\* a test that takes every answered request for a created record
IsCreated_AnyAnswer(st) == st # TimedOut

\* r.status_code in (200, 201)
IsCreated(st) == st \in {200, 201}

\* Finish that ends the loop at the first create request that fails
Finish_Abort(st) ==
  /\ IF IsCreated(st)
       THEN /\ posted' = posted + 1
            /\ existing' = AddKnown(existing, candidates[i])
            /\ outcome' = Append(outcome, "posted")
            /\ ppc' = "for"
       ELSE /\ outcome' = Append(outcome, "failed")
            /\ ppc' = "done"
            /\ UNCHANGED <<posted, existing>>
  /\ i' = i + 1
  /\ UNCHANGED post_total

\* the candidate is done: r.status_code in (200, 201), another status, or
\* an exception
\* a loop that takes a failed name for known
Finish_LearnFailed(st) ==
  /\ IF IsCreated(st)
       THEN /\ posted' = posted + 1
            /\ existing' = AddKnown(existing, candidates[i])
            /\ outcome' = Append(outcome, "posted")
       ELSE /\ outcome' = Append(outcome, "failed")
            /\ existing' = AddKnown(existing, candidates[i])
            /\ UNCHANGED posted
  /\ i' = i + 1
  /\ ppc' = "for"
  /\ UNCHANGED post_total

Finish(st) ==
  /\ IF IsCreated(st)
       THEN /\ posted' = posted + 1
            /\ existing' = AddKnown(existing, candidates[i])
            /\ outcome' = Append(outcome, "posted")
       ELSE /\ outcome' = Append(outcome, "failed")
            /\ UNCHANGED <<posted, existing>>
  /\ i' = i + 1
  /\ ppc' = "for"
  /\ UNCHANGED post_total

\* one POST of the create request on the wire, and what the service, the
\* session and the loop make of it
Post ==
  /\ ppc = "post"
  /\ wire' = wire + 1
  /\ IF ~get_api_key(StripKey(api_key), API_KEYS)
       THEN \* 401 from the dependency: create_product does not run
            /\ Finish(401)
            /\ answers' = Append(answers, 401)
            /\ reached' = reached + 1
            /\ UNCHANGED <<table, next_id, pfaults>>
       ELSE \E x \in Exchanges :
            /\ x # "created" => pfaults < MaxFaults
            /\ reached' = IF x = "unreached" THEN reached ELSE reached + 1
            /\ pfaults' = IF x = "created" THEN pfaults ELSE pfaults + 1
            /\ IF x \in {"created", "answer_lost"}
                 THEN /\ table' = create_product(table, next_id, candidates[i])
                      /\ next_id' = next_id + 1
                 ELSE UNCHANGED <<table, next_id>>
            /\ IF AdapterRetries(SeenStatus(x), post_total)
                 THEN /\ post_total' = post_total - 1
                      /\ ppc' = "post"
                      /\ UNCHANGED <<existing, posted, i, outcome, answers>>
                 ELSE /\ Finish(SeenStatus(x))
                      /\ answers' = Append(answers, SeenStatus(x))
  /\ UNCHANGED <<candidates, api_key, API_KEYS, skipped, known_fetches,
                 fetch_outcome, snapshot, calls>>
  /\ UNCHANGED <<svars, xvars, ivars>>

PublishNext ==
  \/ FetchKnown
  \/ Candidate
  \/ Post

PublishSpec == PublishInit /\ [][PublishNext]_vars

\* ------------------------------------------- catalog service on its own
\* the api-key headers a client may send: the configured key, another key,
\* an empty one, none at all
ServiceKeys == {K_Good, K_Bad, <<>>, NoHeader}

\* API_KEYS after split(","): " k, " and the unset or empty variable
ServiceEnvs == {<<<<" ", "k">>, <<" ">>>>, <<<<>>>>}

\* the names a client sends in the body
ServiceNames == {N_GTA, N_FIFA}

\* the ids a client may name: those handed out so far and the next one
ServiceIds == 1..next_id

\* what a request to the service leaves alone
ServiceFrame ==
  /\ UNCHANGED <<spc, API_KEYS, fpc, fin, fout>>
  /\ UNCHANGED <<dpc, dtotal, derrs, dhist, dwaits, dresult>>
  /\ UNCHANGED <<ppc, candidates, api_key, existing, posted, skipped, i,
                 post_total, pfaults, known_fetches, fetch_outcome, snapshot,
                 calls, wire, outcome, answers, reached>>
  /\ UNCHANGED <<svars, ivars>>

\* POST /products/ as any client may deliver it: get_api_key, then
\* create_product
CreateProduct ==
  /\ spc = "serving"
  /\ \E key \in ServiceKeys, name \in ServiceNames :
       /\ req' = [op |-> "create", key |-> key, name |-> name, id |-> 0]
       /\ IF Depends(key, API_KEYS) # Passed
            THEN /\ resp' = Depends(key, API_KEYS)
                 /\ UNCHANGED <<table, next_id>>
            ELSE /\ next_id <= MaxRows
                 /\ table' = create_product(table, next_id, name)
                 /\ next_id' = next_id + 1
                 /\ resp' = 200
  /\ ServiceFrame

\* PUT /products/{product_id}: get_api_key, then update_product
UpdateProduct ==
  /\ spc = "serving"
  /\ \E key \in ServiceKeys, name \in ServiceNames, id \in ServiceIds :
       /\ req' = [op |-> "update", key |-> key, name |-> name, id |-> id]
       /\ IF Depends(key, API_KEYS) # Passed
            THEN /\ resp' = Depends(key, API_KEYS)
                 /\ UNCHANGED table
            ELSE IF ~HasId(table, id)
            THEN /\ resp' = 404
                 /\ UNCHANGED table
            ELSE /\ table' = update_product(table, id, name)
                 /\ resp' = 200
  /\ UNCHANGED next_id
  /\ ServiceFrame

\* DELETE /products/{product_id}: get_api_key, then delete_product
DeleteProduct ==
  /\ spc = "serving"
  /\ \E key \in ServiceKeys, id \in ServiceIds :
       /\ req' = [op |-> "delete", key |-> key, name |-> <<>>, id |-> id]
       /\ IF Depends(key, API_KEYS) # Passed
            THEN /\ resp' = Depends(key, API_KEYS)
                 /\ UNCHANGED table
            ELSE /\ table' = delete_product(table, id)
                 /\ resp' = 204
  /\ UNCHANGED next_id
  /\ ServiceFrame

\* GET /products/{product_id}: get_product, no dependency
GetProduct ==
  /\ spc = "serving"
  /\ \E key \in {K_Bad, NoHeader}, id \in ServiceIds :
       /\ req' = [op |-> "get", key |-> key, name |-> <<>>, id |-> id]
       /\ resp' = IF HasId(table, id) THEN 200 ELSE 404
  /\ UNCHANGED <<table, next_id>>
  /\ ServiceFrame

\* GET /products/: list_products, no dependency
ListProducts ==
  /\ spc = "serving"
  /\ \E key \in {K_Bad, NoHeader} :
       /\ req' = [op |-> "list", key |-> key, name |-> <<>>, id |-> 0]
       /\ resp' = 200
  /\ UNCHANGED <<table, next_id>>
  /\ ServiceFrame

ServiceInit ==
  /\ ScrapeIdle
  /\ ppc = "idle"
  /\ candidates = <<>>
  /\ api_key = <<>>
  /\ API_KEYS \in ServiceEnvs
  /\ table \in InitTables
  /\ next_id = Len(table) + 1
  /\ existing = {}
  /\ posted = 0
  /\ skipped = 0
  /\ i = 0
  /\ post_total = 0
  /\ pfaults = 0
  /\ known_fetches = 0
  /\ fetch_outcome = "none"
  /\ snapshot = {}
  /\ calls = 0
  /\ wire = 0
  /\ outcome = <<>>
  /\ answers = <<>>
  /\ reached = 0
  /\ spc = "serving"
  /\ req = NoRequest
  /\ resp = NoAnswer
  /\ FieldIdle
  /\ DetailIdle
  /\ ImportIdle

ServiceNext ==
  \/ CreateProduct
  \/ UpdateProduct
  \/ DeleteProduct
  \/ GetProduct
  \/ ListProducts

ServiceSpec == ServiceInit /\ [][ServiceNext]_vars

\* ------------------------------------------------ field extraction alone
\* a price: a parsed float as mantissa / 10^exp with no trailing zero in
\* the fraction, or Python's None
NoPrice == [ok |-> FALSE, mant |-> 0, exp |-> 0]

RECURSIVE Normalise(_, _)
Normalise(m, e) ==
  IF e > 0 /\ m % 10 = 0 THEN Normalise(m \div 10, e - 1)
  ELSE [ok |-> TRUE, mant |-> m, exp |-> e]

DigitVal(c) ==
  CASE c = "0" -> 0 [] c = "1" -> 1 [] c = "2" -> 2 [] c = "3" -> 3
    [] c = "4" -> 4 [] c = "5" -> 5 [] c = "6" -> 6 [] c = "7" -> 7
    [] c = "8" -> 8 [] OTHER -> 9

\* the number the digits of t spell, whatever else t holds
RECURSIVE DigitsValue(_)
DigitsValue(t) ==
  IF t = <<>> THEN 0
  ELSE IF IsDigit(t[Len(t)])
    THEN 10 * DigitsValue(SubSeq(t, 1, Len(t) - 1)) + DigitVal(t[Len(t)])
    ELSE DigitsValue(SubSeq(t, 1, Len(t) - 1))

Count(t, c) == Cardinality({k \in 1..Len(t) : t[k] = c})

\* float(num) for a text of digits, "." and "-": an optional leading minus,
\* then digits around at most one point, at least one digit; anything else
\* raises ValueError, which parse_price turns into None
Float(num) ==
  LET neg  == num # <<>> /\ num[1] = "-"
      rest == IF neg THEN Tail(num) ELSE num
      dot  == IF Count(rest, ".") = 1
                THEN CHOOSE k \in 1..Len(rest) : rest[k] = "."
                ELSE Len(rest) + 1
      mag  == DigitsValue(rest)
  IN  IF \/ Count(rest, "-") > 0
         \/ Count(rest, ".") > 1
         \/ \A k \in 1..Len(rest) : ~IsDigit(rest[k])
        THEN NoPrice
        ELSE Normalise(IF neg THEN 0 - mag ELSE mag, Max0(Len(rest) - dot))

\* str.replace(old, "") for a one-character old
Remove(t, c) == SelectSeq(t, LAMBDA x : x # c)

\* str.replace(",", ".")
CommaToDot(t) == [k \in 1..Len(t) |-> IF t[k] = "," THEN "." ELSE t[k]]

\* parse_price
parse_price(text) ==
  IF Falsy(text) THEN NoPrice
  ELSE LET p   == CommaToDot(Strip(Remove(Remove(text, "€"), "$")))
           num == SelectSeq(p, LAMBDA ch : IsDigit(ch) \/ ch = "." \/ ch = "-")
       IN  IF num = <<>> THEN NoPrice ELSE Float(num)

P_Euro   == <<"€", "1", ".", "2", "9", "9", ",", "5", "0">>
P_Dollar == <<"$", "1", ",", "2", "9", "9", ".", "5", "0">>
P_Plain  == <<"1", "2", "9", "9", ".", "5", "0">>

PriceChars == {"€", "$", "1", "5", ",", ".", "-", " ", "x"}

PriceTexts ==
  SeqsUpTo(PriceChars, MaxPriceLen) \cup {None, P_Euro, P_Dollar, P_Plain}

\* sub in t
Contains(t, sub) ==
  \E k \in 1..(Len(t) - Len(sub) + 1) : SubSeq(t, k, k + Len(sub) - 1) = sub

OutMarkers == {<<"o", "u", "t">>, <<"s", "k", "a">>}
InMarkers ==
  {<<"i", "n", " ", "s", "t", "o", "c", "k">>,
   <<"a", "v", "a", "i", "l", "a", "b", "l", "e">>}

S_OutOfStock == <<"o", "u", "t", " ", "o", "f", " ", "s", "t", "o", "c", "k">>
S_InStock    == <<"i", "n", " ", "s", "t", "o", "c", "k">>

\* the classification with the in-stock markers tested first
stock_status_InFirst(tag) ==
  IF ~tag.present THEN None
  ELSE LET raw == GetTextStrip(tag.nodes)
           st  == Lower(raw)
       IN  IF \E m \in InMarkers : Contains(st, m) THEN S_InStock
           ELSE IF \E m \in OutMarkers : Contains(st, m) THEN S_OutOfStock
           ELSE raw

\* status of an entry, from its .stock, .outofstock or .availability tag
stock_status(tag) ==
  IF ~tag.present THEN None
  ELSE LET raw == GetTextStrip(tag.nodes)
           st  == Lower(raw)
       IN  IF \E m \in OutMarkers : Contains(st, m) THEN S_OutOfStock
           ELSE IF \E m \in InMarkers : Contains(st, m) THEN S_InStock
           ELSE raw

W_InStock   == <<"I", "n", " ", "s", "t", "o", "c", "k">>
W_OUT       == <<" ", "O", "U", "T">>
W_Ska       == <<"S", "k", "a", " ", "n", "ë", " ", "s", "t", "o", "k">>
W_Unavailable == <<"u", "n", "a", "v", "a", "i", "l", "a", "b", "l", "e", " ">>
W_Soon      == <<"S", "o", "o", "n">>
StockWords  == {W_InStock, W_OUT, W_Ska, W_Unavailable, W_Soon, T_Blank}

StockTags == {NoTag} \cup {Tag(n) : n \in SeqsUpTo(StockWords, MaxStockNodes)}

\* a parsed listing page: the entries under "ul.products li.product", and
\* the product entries of the page that this selector does not match
Page(strict, loose) == [kind |-> "page", strict |-> strict, loose |-> loose]

Pages == {Page(s, l) : s \in Bodies, l \in Bodies}

\* items = soup.select("ul.products li.product")
select_items(doc) == doc.strict

\* Tag.get_text(): the text nodes joined as they are
RECURSIVE GetText(_)
GetText(nodes) ==
  IF nodes = <<>> THEN <<>> ELSE Head(nodes) \o GetText(Tail(nodes))

\* price = parse_price(price_tag.get_text()) if price_tag else None
ExtractPrice(e) ==
  IF e.price_tag.present THEN parse_price(GetText(e.price_tag.nodes)) ELSE NoPrice

\* a loop body that passes over an entry without a price
item_record_NeedsPrice(e, dt) ==
  LET title == FinalTitle(e, dt)
  IN  IF BadTitle(title) \/ ExtractPrice(e) = NoPrice THEN <<>>
      ELSE <<[name |-> title, price |-> ExtractPrice(e), brand |-> None,
              status |-> stock_status(e.stock_tag),
              product_url |-> ExtractLink(e)]>>

\* the body of "for item in items" for one entry with all its tags, given
\* what fetch_product_detail returns for it: the record appended, if any
item_record(e, dt) ==
  LET title == FinalTitle(e, dt)
  IN  IF BadTitle(title) THEN <<>>
      ELSE <<[name |-> title, price |-> ExtractPrice(e), brand |-> None,
              status |-> stock_status(e.stock_tag),
              product_url |-> ExtractLink(e)]>>

T_Junk == <<"x">>

\* li.product entries with their price and stock tags
FullEntries ==
  {[title_tag |-> t, href |-> h, price_tag |-> p, stock_tag |-> s] :
     t \in {Tag(<<T_GTA>>), Tag(<<T_Discount>>), NoTag},
     h \in {None, T_Href},
     p \in {NoTag, Tag(<<P_Plain>>), Tag(<<T_Junk>>)},
     s \in {NoTag, Tag(<<W_InStock>>), Tag(<<W_Soon>>)}}

FieldInputs ==
  {[kind |-> "price", text |-> t] : t \in PriceTexts}
  \cup {[kind |-> "stock", tag |-> t] : t \in StockTags}
  \cup Pages
  \cup {[kind |-> "item", item |-> e, dt |-> d] :
          e \in FullEntries, d \in {None, T_FIFA}}

\* price = parse_price(price_tag.get_text())
ParsePrice ==
  /\ fpc = "input"
  /\ fin.kind = "price"
  /\ fout' = [op |-> "price", price |-> parse_price(fin.text)]
  /\ fpc' = "output"
  /\ UNCHANGED <<fin, spc, req, resp>>
  /\ UNCHANGED <<dpc, dtotal, derrs, dhist, dwaits, dresult>>
  /\ UNCHANGED <<svars, pvars, ivars>>

\* stock_tag = item.select_one(...); if stock_tag: ...
ClassifyStock ==
  /\ fpc = "input"
  /\ fin.kind = "stock"
  /\ fout' = [op |-> "stock", status |-> stock_status(fin.tag)]
  /\ fpc' = "output"
  /\ UNCHANGED <<fin, spc, req, resp>>
  /\ UNCHANGED <<dpc, dtotal, derrs, dhist, dwaits, dresult>>
  /\ UNCHANGED <<svars, pvars, ivars>>

\* items = soup.select(...) on a fetched page
LocateEntries ==
  /\ fpc = "input"
  /\ fin.kind = "page"
  /\ fout' = [op |-> "locate", items |-> select_items(fin)]
  /\ fpc' = "output"
  /\ UNCHANGED <<fin, spc, req, resp>>
  /\ UNCHANGED <<dpc, dtotal, derrs, dhist, dwaits, dresult>>
  /\ UNCHANGED <<svars, pvars, ivars>>

\* one pass of the body of "for item in items"
BuildRecord ==
  /\ fpc = "input"
  /\ fin.kind = "item"
  /\ fout' = [op |-> "item", records |-> item_record(fin.item, fin.dt)]
  /\ fpc' = "output"
  /\ UNCHANGED <<fin, spc, req, resp>>
  /\ UNCHANGED <<dpc, dtotal, derrs, dhist, dwaits, dresult>>
  /\ UNCHANGED <<svars, pvars, ivars>>

FieldInit ==
  /\ ScrapeIdle
  /\ PublishIdle
  /\ ServiceIdle
  /\ DetailIdle
  /\ ImportIdle
  /\ fpc = "input"
  /\ fin \in FieldInputs
  /\ fout = NoOutput

FieldNext ==
  \/ ParsePrice
  \/ ClassifyStock
  \/ LocateEntries
  \/ BuildRecord

FieldSpec == FieldInit /\ [][FieldNext]_vars

\* ------------------------------------------ fetch_product_detail alone
\* the h1 a detail page can carry
DetailHeadings == {d.h1 : d \in DetailResponses}

\* one GET of the detail page on the wire: the adapter sends it again, or
\* fetch_product_detail returns the heading, or None on any exception
DetailGet ==
  /\ dpc = "get"
  /\ \E st \in ServerStatuses, h \in DetailHeadings :
       /\ st # 200 => h = NoTag
       /\ dhist' = Append(dhist, st)
       /\ IF AdapterRetries(st, dtotal)
            THEN /\ dtotal' = dtotal - 1
                 /\ derrs' = derrs + 1
                 /\ dwaits' = IF AdapterBackoff(ScrapeBackoff, derrs + 1) > 0
                                THEN Append(dwaits, AdapterBackoff(ScrapeBackoff, derrs + 1))
                                ELSE dwaits
                 /\ UNCHANGED <<dpc, dresult>>
            ELSE /\ dresult' = fetch_product_detail([status |-> st, h1 |-> h])
                 /\ dpc' = "return"
                 /\ UNCHANGED <<dtotal, derrs, dwaits>>
  /\ UNCHANGED <<spc, req, resp, fpc, fin, fout>>
  /\ UNCHANGED <<svars, pvars, ivars>>

\* scrape_category passes its session s, made with retries=4
DetailInit ==
  /\ ScrapeIdle
  /\ PublishIdle
  /\ ServiceIdle
  /\ FieldIdle
  /\ ImportIdle
  /\ dpc = "get"
  /\ dtotal = ScrapeRetries
  /\ derrs = 0
  /\ dhist = <<>>
  /\ dwaits = <<>>
  /\ dresult = None

DetailNext ==
  \/ DetailGet

DetailSpec == DetailInit /\ [][DetailNext]_vars

\* ------------------------------------------------------- import_from_csv
\* a row as csv.DictReader gives it: the three columns parse_row reads the
\* name from, None for a column the file does not have
CsvRow(n, N, p) == [name |-> n, Name |-> N, product |-> p]

\* a or b
Or(a, b) == IF Falsy(a) THEN b ELSE a

\* parse_row(row)["name"]
parse_row(row) == Strip(Or(row.name, Or(row.Name, Or(row.product, <<>>))))

CsvRows ==
  { CsvRow(N_GTA, None, None),
    CsvRow(<<" ">>, N_FIFA, None),
    CsvRow(<<>>, <<" ">> \o N_FIFA \o <<" ">>, None),
    CsvRow(None, <<>>, N_GTA),
    CsvRow(<<>>, None, <<>>) }

CsvFiles == SeqsUpTo(CsvRows, MaxCsvRows)

\* what the catalog service and the network make of one requests.post: the
\* exchanges of the publisher and a 401 from get_api_key
ImportExchanges == Exchanges \cup {"rejected"}

\* what a step of the importer leaves alone
ImportFrame ==
  /\ UNCHANGED <<ppc, candidates, api_key, API_KEYS, existing, posted, skipped,
                 i, post_total, pfaults, known_fetches, fetch_outcome, snapshot,
                 calls, wire, outcome, answers, reached>>
  /\ UNCHANGED <<svars, xvars>>

\* insert_direct, one pass of "for r in dr"
ReadRow ==
  /\ importer.pc = "read"
  /\ importer.mode = "db"
  /\ importer.pos <= Len(importer.file)
  /\ LET obj == parse_row(importer.file[importer.pos])
     IN  importer' = [importer EXCEPT
                        !.pos = @ + 1,
                        !.rows = IF Falsy(obj) THEN @ ELSE Append(@, obj)]
  /\ UNCHANGED <<table, next_id>>
  /\ ImportFrame

\* insert_direct after the loop: cursor.executemany and conn.commit
ExecuteMany ==
  /\ importer.pc = "read"
  /\ importer.mode = "db"
  /\ importer.pos > Len(importer.file)
  /\ table' = table \o [k \in 1..Len(importer.rows) |->
                          Row(next_id + k - 1, importer.rows[k])]
  /\ next_id' = next_id + Len(importer.rows)
  /\ importer' = [importer EXCEPT !.pc = "done", !.count = Len(importer.rows)]
  /\ ImportFrame

\* post_to_api, one pass of "for r in dr": requests.post outside any try
PostRow ==
  /\ importer.pc = "read"
  /\ importer.mode = "api"
  /\ importer.pos <= Len(importer.file)
  /\ LET obj == parse_row(importer.file[importer.pos])
     IN  IF Falsy(obj)
           THEN /\ importer' = [importer EXCEPT !.pos = @ + 1]
                /\ UNCHANGED <<table, next_id>>
           ELSE \E x \in ImportExchanges :
                /\ IF x \in {"created", "answer_lost"}
                     THEN /\ table' = create_product(table, next_id, obj)
                          /\ next_id' = next_id + 1
                     ELSE UNCHANGED <<table, next_id>>
                /\ importer' =
                     IF x \in {"answer_lost", "unreached"}
                       THEN [importer EXCEPT !.pc = "raised",
                                             !.sent = Append(@, obj)]
                       ELSE [importer EXCEPT !.pos = @ + 1,
                                             !.sent = Append(@, obj),
                                             !.count = IF x = "created"
                                                         THEN @ + 1 ELSE @]
  /\ ImportFrame

\* post_to_api after the loop
EndOfFile ==
  /\ importer.pc = "read"
  /\ importer.mode = "api"
  /\ importer.pos > Len(importer.file)
  /\ importer' = [importer EXCEPT !.pc = "done"]
  /\ UNCHANGED <<table, next_id>>
  /\ ImportFrame

ImportInit ==
  /\ ScrapeIdle
  /\ PublishIdle
  /\ ServiceIdle
  /\ FieldIdle
  /\ DetailIdle
  /\ \E mode \in {"db", "api"}, file \in CsvFiles :
       importer = [pc |-> "read", mode |-> mode, file |-> file, pos |-> 1,
                   rows |-> <<>>, sent |-> <<>>, count |-> 0]

ImportNext ==
  \/ ReadRow
  \/ ExecuteMany
  \/ PostRow
  \/ EndOfFile

ImportSpec == ImportInit /\ [][ImportNext]_vars


\* ================================================================ claims
Max(a, b) == IF a >= b THEN a ELSE b

Failed(how) == how \in {"transport", "status", "unparsable"}

\* positions of the candidates reached so far with the given outcome and name
Reached(what, name) ==
  {k \in 1..Len(outcome) : outcome[k] = what /\ candidates[k] = name}

\* the known-set at the moment candidate k is reached: the fetched names and
\* the names published before k
KnownAt(k) ==
  snapshot \cup {candidates[j] : j \in {x \in 1..(k - 1) : outcome[x] = "posted"}}

\* C1: after a publish run the catalog holds at most one record for each
\* name the run submitted, and no record with an empty name
C1_NoDuplicatesNoEmptyNames ==
  ppc = "done" =>
    /\ \A k \in 1..Len(candidates) :
         outcome[k] # "skipped" => Cardinality(RowsNamed(table, candidates[k])) <= 1
    /\ \A k \in 1..Len(table) : table[k].name # <<>>

\* C2: every record scrape_category has appended carries a name that is
\* not missing, not empty, not whitespace-only and not a badge
C2_RecordNamesValid ==
  \A k \in 1..Len(products) :
    LET n == products[k].name
    IN  /\ n # None
        /\ n # <<>>
        /\ Strip(n) # <<>>
        /\ ~BAD_TITLE_RE(n)
        /\ n \notin {T_Discount, T_NoStock}

\* an entry whose title was still a badge after the detail fetch has been
\* passed over, next to a record that was kept
C2_Witness ==
  /\ products # <<>>
  /\ \E k \in 1..Len(dts) :
       /\ k <= Len(body)
       /\ NeedsDetail(body[k])
       /\ BAD_TITLE_RE(dts[k])
       /\ idx > k

\* C3: a candidate is skipped exactly when its exact name is in the
\* known-set at the moment it is reached, every other candidate gets a
\* create request, and the known-set is fetched once, before the first
\* candidate
C3_SkipIffKnown ==
  /\ known_fetches = (IF ppc = "fetch_known" THEN 0 ELSE 1)
  /\ ppc = "fetch_known" => outcome = <<>> /\ calls = 0
  /\ \A k \in 1..Len(outcome) :
       outcome[k] = "skipped" <=> candidates[k] \in KnownAt(k)
  /\ skipped = Cardinality({k \in 1..Len(outcome) : outcome[k] = "skipped"})
  /\ calls = Cardinality({k \in 1..Len(outcome) : outcome[k] # "skipped"})
             + (IF ppc = "post" THEN 1 ELSE 0)
  /\ ppc = "post" => candidates[i] \notin KnownAt(i)

\* a run that skipped a known candidate and submitted an unknown one whose
\* name differs from a known name only in case
C3_Witness ==
  /\ ppc = "done"
  /\ \E a, b \in 1..Len(outcome) :
       /\ outcome[a] = "skipped"
       /\ outcome[b] # "skipped"
       /\ Lower(candidates[b]) \in {Lower(n) : n \in KnownAt(b)}

\* the pairs the claim is about: a name that occurs exactly twice among the
\* candidates and is not in the fetched known-set
TwinPairs ==
  {pr \in (1..Len(candidates)) \X (1..Len(candidates)) :
     /\ pr[1] < pr[2]
     /\ candidates[pr[1]] = candidates[pr[2]]
     /\ candidates[pr[1]] \notin snapshot
     /\ Cardinality({k \in 1..Len(candidates) : candidates[k] = candidates[pr[1]]}) = 2}

\* C4 as stated: of two candidates with the same name, unknown to the
\* catalog, one is published and the other is skipped
C4_Original ==
  ppc = "done" =>
    \A pr \in TwinPairs :
      /\ Cardinality(Reached("posted", candidates[pr[1]])) = 1
      /\ Cardinality(Reached("skipped", candidates[pr[1]])) = 1

\* C4 amended: when the create request of the first is answered 200, it is
\* the one published and the second is skipped; when it fails, the second
\* is submitted too
C4_Amended ==
  ppc = "done" =>
    \A pr \in TwinPairs :
      /\ outcome[pr[1]] # "skipped"
      /\ outcome[pr[1]] = "posted" =>
           /\ outcome[pr[2]] = "skipped"
           /\ Cardinality(Reached("posted", candidates[pr[1]])) = 1
           /\ Cardinality(Reached("skipped", candidates[pr[1]])) = 1
      /\ outcome[pr[1]] = "failed" => outcome[pr[2]] # "skipped"

\* a finished run with such a pair, the first published, the second skipped
C4_Witness ==
  /\ ppc = "done"
  /\ \E pr \in TwinPairs : outcome[pr[1]] = "posted" /\ outcome[pr[2]] = "skipped"

\* C5: after a failed known-name fetch the known-set starts empty and every
\* distinct candidate name gets a create request; a candidate is skipped
\* only after an equal name was published in this run
C5_FailOpen ==
  Failed(fetch_outcome) =>
    /\ snapshot = {}
    /\ \A k \in 1..Len(outcome) :
         outcome[k] = "skipped" =>
           \E j \in 1..(k - 1) : candidates[j] = candidates[k] /\ outcome[j] = "posted"
    /\ ppc = "done" =>
         \A k \in 1..Len(candidates) :
           \E j \in 1..k : candidates[j] = candidates[k] /\ outcome[j] # "skipped"

\* a finished run whose fetch failed and which submitted a name the catalog
\* already held
C5_Witness ==
  /\ ppc = "done"
  /\ Failed(fetch_outcome)
  /\ pfaults = 0
  /\ \E k \in 1..Len(outcome) :
       /\ outcome[k] = "posted"
       /\ Cardinality(RowsNamed(table, candidates[k])) = 2

\* C6: between pages and at the end the result is exactly the valid records
\* of the pages fetched, in page order, and at the end every page up to
\* max_pages was fetched or skipped
C6_SkippedPagesOnly ==
  /\ pc \in {"for", "done"} => products = expected
  /\ pc = "done" => \A p \in 1..max_pages : served[p] # "pending"

\* page 1 was skipped, page 2 fetched, and the result holds its record
C6_Witness ==
  /\ pc = "done"
  /\ max_pages >= 2
  /\ served[1] = "skipped"
  /\ served[2] = "ok"
  /\ products # <<>>

\* C7 as stated: once a listing GET is answered 404 the fetch is over (r is
\* None), and a 404 to the first GET leaves no wait behind
C7_NoRetryAfter4xx ==
  last = 404 =>
    /\ r = NoneR
    /\ gets = 1 => waits = <<>>

\* C8 as stated: no listing URL sees more GET requests than the attempt
\* budget
C8_AtMostNGets == gets <= Max(max_attempts, ScrapeRetries)

\* C9 as stated: a page answered 503, 503, 503 and then 200 is fetched, and
\* three waits of base, 2*base and 4*base were slept for it
C9_ThreeDoublingWaits ==
  (gets = 4 /\ n503 = 3 /\ last = 200) =>
    /\ served[page] = "ok"
    /\ \E base \in {LoopBackoffBase, ScrapeBackoff} :
         waits = <<base, 2 * base, 4 * base>>

\* C10 as stated: when the fetch of a page after the first begins, the
\* polite delay was slept since the previous page's last GET
C10_PoliteDelayAlways ==
  (pc = "while" /\ attempts = 0 /\ page > 1) => polite

\* C11: the candidates are handled one at a time in input order, a failed
\* create request (rejected or lost) does not end the run, and at the end
\* every candidate was skipped, published or failed
C11_FailureNeverAborts ==
  /\ ppc \in {"for", "post"} => Len(outcome) = i - 1
  /\ ppc = "post" => i <= Len(candidates)
  /\ ppc = "done" =>
       /\ Len(outcome) = Len(candidates)
       /\ posted + skipped
            + Cardinality({k \in 1..Len(outcome) : outcome[k] = "failed"})
          = Len(candidates)

\* a finished run in which a create request failed on a transport error
\* and a later candidate was published
C11_Witness ==
  /\ ppc = "done"
  /\ pfaults > 0
  /\ \E a, b \in 1..Len(outcome) :
       a < b /\ outcome[a] = "failed" /\ outcome[b] = "posted"

\* C12 as stated: when a create request that was answered 200 is delivered
\* to create_product again, the rows carrying its name stay as they were
C12_RetryLeavesOneRecord ==
  [][(req.op = "create" /\ resp = 200 /\ req' = req /\ resp' = 200)
       => RowsNamed(table', req.name) = RowsNamed(table, req.name)]_vars

\* the records appended for the page being parsed
PagePart == SubSeq(products, Len(expected) + 1, Len(products))

\* the records of a page when every entry with a badge as listing title is
\* left out
RECURSIVE WithoutBadges(_, _)
WithoutBadges(items, dtitles) ==
  IF items = <<>> \/ dtitles = <<>> THEN <<>>
  ELSE (IF BAD_TITLE_RE(ExtractTitle(Head(items))) THEN <<>>
        ELSE Emit(<<>>, FinalTitle(Head(items), Head(dtitles)),
                  ExtractLink(Head(items))))
       \o WithoutBadges(Tail(items), Tail(dtitles))

\* the records of a page when an entry with a badge as listing title is
\* kept, under the title of its detail page, exactly if it has a link and
\* that title is neither missing, empty nor a badge
RECURSIVE BadgeFallback(_, _)
BadgeFallback(items, dtitles) ==
  IF items = <<>> \/ dtitles = <<>> THEN <<>>
  ELSE LET e  == Head(items)
           dt == Head(dtitles)
       IN  (IF BAD_TITLE_RE(ExtractTitle(e))
              THEN IF e.href # None /\ dt # None /\ dt # <<>> /\ ~BAD_TITLE_RE(dt)
                     THEN <<[name |-> dt, price |-> None, brand |-> None,
                             status |-> None, product_url |-> BASE \o e.href]>>
                     ELSE <<>>
              ELSE Emit(<<>>, FinalTitle(e, dt), ExtractLink(e)))
           \o BadgeFallback(Tail(items), Tail(dtitles))

\* C13 as stated: an entry whose listing title is a badge contributes no
\* record to the result
C13_Original ==
  pc = "sleep" => PagePart = WithoutBadges(body, dts)

\* C13 amended: no record carries a badge as its name; an entry whose
\* listing title is a badge is left out unless it has a product link and
\* its detail page yields a usable title, and then it is returned under
\* that title
C13_Amended ==
  pc = "sleep" =>
    /\ \A k \in 1..Len(PagePart) : ~BAD_TITLE_RE(PagePart[k].name)
    /\ PagePart = BadgeFallback(body, dts)

\* a parsed page with an entry titled by a badge whose detail page gave the
\* title FIFA, and the record returned for it
C13_Witness ==
  /\ pc = "sleep"
  /\ \E k \in 1..Len(body) :
       /\ BAD_TITLE_RE(ExtractTitle(body[k]))
       /\ dts[k] = T_FIFA
  /\ \E k \in 1..Len(PagePart) : PagePart[k].name = T_FIFA

\* C14 as stated: parse_price returns 1299.50 for "€1.299,50" and for
\* "$1,299.50", and None for every text without a digit
C14_PriceNormalised ==
  fout.op = "price" =>
    /\ fin.text \in {P_Euro, P_Dollar} => fout.price = Normalise(129950, 2)
    /\ (\A k \in 1..Len(fin.text) : ~IsDigit(fin.text[k])) => fout.price = NoPrice

\* C15: at the end posted is the number of create requests answered 200 or
\* 201, skipped is the number of candidates found in the known-set when
\* they were reached, a request that ended otherwise counts as neither,
\* posted + skipped is at most the number of candidates, and every
\* published name is in the known-set
C15_CountsAtEnd ==
  ppc = "done" =>
    /\ posted = Cardinality({k \in 1..Len(answers) : answers[k] \in {200, 201}})
    /\ skipped = Cardinality({k \in 1..Len(candidates) : candidates[k] \in KnownAt(k)})
    /\ posted + skipped
         + Cardinality({k \in 1..Len(answers) : answers[k] \notin {200, 201}})
       = Len(candidates)
    /\ posted + skipped <= Len(candidates)
    /\ \A k \in 1..Len(outcome) : outcome[k] = "posted" => candidates[k] \in existing

\* a finished run with a candidate skipped, one published and one whose
\* create request was answered 503 to the last
C15_Witness ==
  /\ ppc = "done"
  /\ posted = 1
  /\ skipped = 1
  /\ \E k \in 1..Len(answers) : answers[k] = 503

\* steps one attempt of the retry loop can take, and steps one page can take
AttemptSpan == ScrapeRetries + 2
ParseSpan == 4 + 2 * MaxItems
PageSpan == ParseSpan + max_attempts * AttemptSpan

\* a bound on the steps scrape_category still has to take
Rank ==
  LET left   == Max0(max_pages + 1 - page)
      base   == 1 + (left - 1) * (PageSpan + 1)
      toParse == 2 * (Len(r.items) + 1 - idx)
  IN  CASE pc = "warmup" -> 2 + left * (PageSpan + 1)
        [] pc = "for"    -> 1 + left * (PageSpan + 1)
        [] pc = "while"  -> base + ParseSpan + (max_attempts - attempts) * AttemptSpan
        [] pc = "get"    -> base + ParseSpan + (max_attempts - attempts) * AttemptSpan
                              + 1 + retry_total
        [] pc = "if_r"   -> base + ParseSpan - 1
        [] pc = "items"  -> base + 2 + toParse
        [] pc = "detail" -> base + 1 + toParse
        [] pc = "sleep"  -> base + 1
        [] OTHER         -> 0

\* C16: whatever max_pages is and however the fetches fail, scrape_category
\* never raises and comes to its return: every step lowers a bound that
\* cannot go below zero and is zero only at the return
C16_TerminatesWithoutRaising ==
  /\ [][Rank' < Rank]_vars
  /\ [](/\ Rank >= 0
        /\ pc # "raised"
        /\ Rank = 0 => pc = "done")

\* a finished run whose only page was given up after three failed attempts,
\* with an empty result
C16_Witness ==
  /\ pc = "done"
  /\ max_pages = 1
  /\ served[1] = "skipped"
  /\ attempts = max_attempts
  /\ products = <<>>

\* C17: a stock text with an out-of-stock marker is classified out of
\* stock, also when it holds an in-stock marker too; a text is classified
\* in stock only if it holds an in-stock marker and no out-of-stock marker;
\* a text with neither is passed on verbatim
C17_StockClassification ==
  (fout.op = "stock" /\ fin.tag.present) =>
    LET raw   == GetTextStrip(fin.tag.nodes)
        isOut == \E m \in OutMarkers : Contains(Lower(raw), m)
        isIn  == \E m \in InMarkers : Contains(Lower(raw), m)
    IN  /\ isOut => fout.status = S_OutOfStock
        /\ (isIn /\ ~isOut) => fout.status = S_InStock
        /\ (~isIn /\ ~isOut) => fout.status = raw
        /\ fout.status = S_InStock => (isIn /\ ~isOut)

\* a stock text that says "In stock" and "OUT" was classified out of stock
C17_Witness ==
  /\ fout.op = "stock"
  /\ fin.tag = Tag(<<W_InStock, W_OUT>>)
  /\ fout.status = S_OutOfStock

\* C18 as stated: the entries of a page are those of the most specific
\* selector if it matches any, else those of a looser selector, so a page
\* whose entries only a looser selector matches still yields them
C18_FallbackSelector ==
  fout.op = "locate" =>
    fout.items = (IF fin.strict # <<>> THEN fin.strict ELSE fin.loose)

\* the failures the retry policy of the listing fetch treats as retryable
Retryable(st) == st \in status_forcelist \cup {TimedOut, BrokenBody}

\* C19 as stated: the detail fetch gives the title up on a retryable
\* failure only after as many attempts as a listing fetch makes, with the
\* waits between them
C19_SameRetryPolicy ==
  (dpc = "return" /\ Retryable(dhist[Len(dhist)])) =>
    /\ Len(dhist) >= max_attempts
    /\ Len(dwaits) >= max_attempts - 1

\* C20: the warm-up GET is sent once, before any listing GET, and whatever
\* it is answered the run goes on to the page loop: with max_pages >= 1 the
\* fetch of page 1 begins, and at the end page 1 was fetched or given up
\* after its attempts
C20_WarmUpNonFatal ==
  /\ [][pc = "warmup" => (pc' = "for" /\ page' = 1)]_vars
  /\ [][pc' = "warmup" => pc = "warmup"]_vars
  /\ [][(pc = "for" /\ page = 1 /\ max_pages >= 1)
          => (pc' = "while" /\ attempts' = 0)]_vars
  /\ [](pc = "warmup" =>
          (warm = NoAnswer /\ gets = 0 /\ \A p \in 1..MaxPages : served[p] = "pending"))
  /\ []((pc = "done" /\ max_pages >= 1) => served[1] # "pending")

\* the warm-up GET was answered 503 and the first GET of page 1 is about
\* to be sent
C20_Witness ==
  /\ pc = "get"
  /\ page = 1
  /\ attempts = 1
  /\ gets = 0
  /\ warm = 503

\* C21: an entry whose listing title is usable gives exactly one record,
\* under that title, whatever becomes of its other fields: without a price
\* tag the price is None, without a stock tag the status is None, without
\* a link the product_url is None
C21_NonTitleFieldsOptional ==
  (fout.op = "item" /\ ~BadTitle(ExtractTitle(fin.item))) =>
    /\ Len(fout.records) = 1
    /\ fout.records[1].name = ExtractTitle(fin.item)
    /\ ~fin.item.price_tag.present => fout.records[1].price = NoPrice
    /\ ~fin.item.stock_tag.present => fout.records[1].status = None
    /\ fin.item.href = None => fout.records[1].product_url = None

\* an entry titled GTA with no price tag, no stock tag and no link gave a
\* record whose three fields are None
C21_Witness ==
  /\ fout.op = "item"
  /\ fin.item = [title_tag |-> Tag(<<T_GTA>>), href |-> None,
                 price_tag |-> NoTag, stock_tag |-> NoTag]
  /\ fout.records = <<[name |-> <<"G", "T", "A">>, price |-> NoPrice,
                       brand |-> None, status |-> None, product_url |-> None]>>

\* C22 as stated: of the POST requests one call of s.post puts on the wire,
\* at most one gets to the catalog service
C22_OneCreateReachesService == reached <= 1

\* a step in which the call of s.post for a candidate ends in failure
FailStep ==
  /\ Len(outcome') = Len(outcome) + 1
  /\ outcome'[Len(outcome')] = "failed"

\* positions k < j of two equal-named candidates reached so far, the first
\* one failed
FailedBefore ==
  {pr \in (1..Len(outcome)) \X (1..Len(outcome)) :
     /\ pr[1] < pr[2]
     /\ candidates[pr[1]] = candidates[pr[2]]
     /\ outcome[pr[1]] = "failed"}

\* a candidate of the same name was published between the two positions
PostedBetween(pr) ==
  \E m \in (pr[1] + 1)..(pr[2] - 1) :
    candidates[m] = candidates[pr[1]] /\ outcome[m] = "posted"

\* C23 as stated: a failed create leaves the known-set and both counters as
\* they were, the known-set never shrinks, and every later candidate with the
\* name of a failed one is submitted again
C23_Original ==
  /\ [][FailStep => existing' = existing /\ posted' = posted /\ skipped' = skipped]_vars
  /\ [][existing \subseteq existing']_vars
  /\ [](\A pr \in FailedBefore : outcome[pr[2]] # "skipped")

\* C23 amended: a failed create leaves the known-set and both counters as
\* they were, the known-set never shrinks, and a later candidate with the
\* name of a failed one is submitted again unless a candidate of that name
\* was published in between
C23_FailureLeavesKnownSet ==
  /\ [][FailStep => existing' = existing /\ posted' = posted /\ skipped' = skipped]_vars
  /\ [][existing \subseteq existing']_vars
  /\ [](\A pr \in FailedBefore : ~PostedBetween(pr) => outcome[pr[2]] # "skipped")

\* a finished run in which a name failed and the next candidate of that name
\* was submitted again and published
C23_Witness ==
  /\ ppc = "done"
  /\ \E pr \in FailedBefore :
       /\ ~PostedBetween(pr)
       /\ outcome[pr[2]] = "posted"

\* the keys the service takes: the trimmed, non-empty entries of API_KEYS
AllowedKeys == {Strip(API_KEYS[k]) : k \in 1..Len(API_KEYS)} \ {<<>>}

WriteOps == {"create", "update", "delete"}

\* C24: the table changes only by a create, update or delete that carries
\* an allowed key; a write with any other key is answered 401 and leaves
\* the table as it was; with API_KEYS unset or empty no write is accepted;
\* list and get are answered whatever the key
C24_WritesNeedAllowedKey ==
  /\ [][table' # table => req'.op \in WriteOps /\ req'.key \in AllowedKeys]_vars
  /\ [][(req' # req \/ resp' # resp) /\ req'.op \in WriteOps
          /\ req'.key \notin AllowedKeys \cup {NoHeader}
        => resp' = 401 /\ table' = table]_vars
  /\ [](AllowedKeys = {} /\ req.op \in WriteOps => resp \in {401, 422})
  /\ [](req.op = "list" => resp = 200)
  /\ [][(req' # req \/ resp' # resp) /\ req'.op = "get"
        => resp' = (IF HasId(table, req'.id) THEN 200 ELSE 404)]_vars

\* a delete of a row that is there was sent with another key and answered
\* 401, and the row is still there
C24_Witness ==
  /\ req.op = "delete"
  /\ req.key = K_Bad
  /\ resp = 401
  /\ AllowedKeys # {}
  /\ HasId(table, req.id)

\* a step in which the service handles a request of the given kind that
\* passed the dependency, for an id that is not in the table
MissingId(ops) ==
  /\ req' # req \/ resp' # resp \/ table' # table
  /\ req'.op \in ops
  /\ req'.op \in WriteOps => req'.key \in AllowedKeys
  /\ ~HasId(table, req'.id)

\* C25: an authorized update or a get for an id that is not in the table is
\* answered 404, an authorized delete for such an id is answered 204, each
\* leaves the table as it was; and a delete that follows a delete of the
\* same id leaves the table as the first one left it
C25_MissingIdAnswers ==
  /\ [][MissingId({"update", "get"}) => resp' = 404 /\ table' = table]_vars
  /\ [][MissingId({"delete"}) => resp' = 204 /\ table' = table]_vars
  /\ [][req.op = "delete" /\ resp = 204 /\ req'.op = "delete" /\ resp' = 204
          /\ req'.id = req.id
        => table' = table]_vars

\* an authorized update named an id that was handed out and deleted since,
\* while other rows are left, and was answered 404
C25_Witness ==
  /\ req.op = "update"
  /\ req.key \in AllowedKeys
  /\ resp = 404
  /\ req.id < next_id
  /\ table # <<>>

\* the names of the rows of a file that are not empty after trimming, in
\* file order
RECURSIVE Named(_)
Named(file) ==
  IF file = <<>> THEN <<>>
  ELSE (IF parse_row(Head(file)) = <<>> THEN <<>> ELSE <<parse_row(Head(file))>>)
       \o Named(Tail(file))

\* the names in the products table, in row order
TableNames == [k \in 1..Len(table) |-> table[k].name]

\* C26 as stated: no record of the catalog has an empty name, and when the
\* importer has ended, the rows inserted (db mode) or POSTed (api mode) are
\* the rows with a name, once each, in file order
C26_NamedRowsOnceInOrder ==
  /\ \A k \in 1..Len(table) : table[k].name # <<>>
  /\ importer.pc \in {"done", "raised"} =>
       (IF importer.mode = "db" THEN TableNames ELSE importer.sent)
         = Named(importer.file)

====
